---- MODULE Spec2Model ----
(***************************************************************************)
(* Model of the parallel log-ingestion pipeline of yeastar_pbx_analyzer:   *)
(* MultiprocessingYeastarLogAnalyzer.parse_log_file (the coordinator), the *)
(* extraction worker pool (mp.Pool.starmap over                            *)
(* _extract_all_data_from_chunk), the bounded result channel               *)
(* (mp.Queue(maxsize=100)) and the batch writer process                    *)
(* (_batch_database_writer).                                               *)
(***************************************************************************)
EXTENDS Integers, Sequences, FiniteSets, TLC

(***************************************************************************)
(* Bounds of the model.                                                    *)
(***************************************************************************)
\* longest file, in lines (content.split('\n') never yields less than one)
MaxLines == 3
\* capacity of the result channel; the code uses 100, the model scales it
\* down so that a put can find the channel full
maxsize == 1
\* how many chunk extractions may raise in one run
MaxChunkFaults == 1
\* how many batch inserts may fail in one run
MaxInsertFaults == 1
\* how many receive timeouts the writer may see in one run
MaxTimeouts == 2

(***************************************************************************)
(* Log lines.  A line is given by what `line.strip()` and the log_entry    *)
(* pattern find in it; a message is a sequence of tokens, and what the     *)
(* code's substring tests and regular expressions find in a token is       *)
(* tabulated below.                                                        *)
(***************************************************************************)
\* Python's None: the absent record and the sentinel of the channel
None == [none |-> TRUE]

\* substrings (case-sensitive) that the code looks for, found in a token
Sub(tok) ==
    CASE tok = "tx_sip"   -> {"Transmitting SIP", "SIP"}
      [] tok = "rx_sip"   -> {"Received SIP", "SIP"}
      [] tok = "cdr22"    -> {"INSERT INTO cdr"}
      [] tok = "cdr5"     -> {"INSERT INTO cdr"}
      [] tok = "REGISTER" -> {"REGISTER"}
      [] tok = "MySQL"    -> {"MySQL"}
      [] tok = "tx_sip_nogroups" -> {"Transmitting SIP", "SIP"}
      [] tok = "threadpool" -> {"threadpool"}
      [] tok = "REGISTER attempt"  -> {"REGISTER", "REGISTER attempt"}
      [] tok = "REGISTER response" -> {"REGISTER", "REGISTER response"}
      [] tok = "unauthorized REGISTER" -> {"REGISTER"}
      [] OTHER            -> {}

\* substrings that the code looks for in the lower-cased message
SubLower(tok) ==
    CASE tok = "tx_sip"   -> {"sip"}
      [] tok = "rx_sip"   -> {"sip"}
      [] tok = "cdr22"    -> {"cdr"}
      [] tok = "cdr5"     -> {"cdr"}
      [] tok = "REGISTER" -> {"register"}
      [] tok = "MySQL"    -> {"mysql"}
      [] tok = "timeout"  -> {"timeout"}
      [] tok = "tx_sip_nogroups" -> {"sip"}
      [] tok = "threadpool" -> {"thread"}
      [] tok = "registered" -> {"register"}
      [] tok = "config"   -> {"config"}
      [] tok = "sip"      -> {"sip"}
      [] tok = "database" -> {"database"}
      [] tok = "REGISTER attempt"  -> {"register", "register attempt"}
      [] tok = "REGISTER response" -> {"register", "register response"}
      [] tok = "unauthorized REGISTER" -> {"register", "unauthorized"}
      [] tok = "registration successful" -> {"registration successful", "success"}
      [] tok = "registration failed" -> {"registration failed", "fail"}
      [] tok = "ok"       -> {"ok"}
      [] OTHER            -> {}

\* the 22 values of the VALUES (...) list of the token "cdr22"
Cdr22Values ==
    << "2024-01-01 10:00:00", "1700000000", "u1", "100", "100", "Alice", "200",
       "Bob", "ctx", "ch1", "ch2", "trunk1", "Dial", "data", "30", "5", "25",
       "ANSWERED", "", "normal", "id1", "[]" >>

\* the value list that the quote-aware split gives for group 1 of the
\* cdr_insert pattern in a token (empty when the pattern does not match)
CdrValueList(tok) ==
    CASE tok = "cdr22" -> Cdr22Values
      [] tok = "cdr5"  -> SubSeq(Cdr22Values, 1, 5)
      [] OTHER         -> <<>>

\* the digit strings of the model and their values (str.isdigit, int)
DigitValue(str) ==
    CASE str = "1700000000" -> 1700000000
      [] str = "100" -> 100
      [] str = "200" -> 200
      [] str = "30"  -> 30
      [] str = "5"   -> 5
      [] str = "25"  -> 25
      [] OTHER       -> -1

\* int(v) if v.isdigit() else 0
IntOrZero(str) == IF DigitValue(str) >= 0 THEN DigitValue(str) ELSE 0

\* groups 2..4 of the 'Transmitting SIP' / 'Received SIP' patterns
SipGroups(tok) ==
    CASE tok = "tx_sip" -> [bytes_size |-> 512, remote_host |-> "10.0.0.1", remote_port |-> 5060]
      [] tok = "rx_sip" -> [bytes_size |-> 300, remote_host |-> "10.0.0.2", remote_port |-> 5060]
      [] OTHER          -> [bytes_size |-> 0, remote_host |-> "", remote_port |-> 0]

\* whether re.search finds the 'Transmitting SIP' / 'Received SIP' pattern
\* with its four groups in a token
SipPatternMatches(tok) == tok \in {"tx_sip", "rx_sip"}

\* pat in message
Contains(message, pat) == \E k \in 1..Len(message) : pat \in Sub(message[k])

\* pat in message.lower()
ContainsLower(message, pat) == \E k \in 1..Len(message) : pat \in SubLower(message[k])

\* whether re.search finds the pattern that starts with pat in the message
HasSipMatch(message, pat) ==
    \E k \in 1..Len(message) : pat \in Sub(message[k]) /\ SipPatternMatches(message[k])

\* the token of the leftmost match of the pattern that starts with pat
FirstSipMatch(message, pat) ==
    message[CHOOSE k \in 1..Len(message) :
               /\ pat \in Sub(message[k]) /\ SipPatternMatches(message[k])
               /\ \A j \in 1..(k-1) :
                      ~ (pat \in Sub(message[j]) /\ SipPatternMatches(message[j]))]

MkLine(blank, matches, ts, lvl, th, mod, ln, msg) ==
    [blank |-> blank, matches |-> matches, timestamp |-> ts, level |-> lvl,
     thread_id |-> th, module |-> mod, line_number |-> ln, message |-> msg]

BlankLine   == MkLine(TRUE,  FALSE, "", "", 0, "", 0, <<>>)
GarbageLine == MkLine(FALSE, FALSE, "", "", 0, "", 0, <<"garbage">>)
CdrLine     == MkLine(FALSE, TRUE, "2024-01-01 10:00:00", "ERROR", 101, "sip", 2000, <<"cdr22">>)
SipLine     == MkLine(FALSE, TRUE, "2024-01-01 10:00:01", "INFO", 102, "chan_sip", 10, <<"tx_sip">>)
RegLine     == MkLine(FALSE, TRUE, "2024-01-01 10:00:02", "WARNING", 103, "reg", 20, <<"REGISTER", "timeout">>)

\* the lines a file of the pipeline model is made of
SampleLines == {GarbageLine, CdrLine, RegLine}

(***************************************************************************)
(* The line classifier and the extractors.                                 *)
(***************************************************************************)
\* faulty variant of classify_log_type: the call-detail test comes first
classify_log_type_cdr_first(message) ==
    IF ContainsLower(message, "cdr") THEN "CDR"
    ELSE IF Contains(message, "SIP") THEN "SIP"
    ELSE IF Contains(message, "REGISTER") THEN "REGISTRATION"
    ELSE IF Contains(message, "MySQL") THEN "DATABASE"
    ELSE IF Contains(message, "threadpool") THEN "SYSTEM"
    ELSE IF ContainsLower(message, "config") THEN "CONFIG"
    ELSE "GENERAL"

\* LogParser.classify_log_type
classify_log_type(message) ==
    IF Contains(message, "SIP") THEN "SIP"
    ELSE IF ContainsLower(message, "cdr") THEN "CDR"
    ELSE IF Contains(message, "REGISTER") THEN "REGISTRATION"
    ELSE IF Contains(message, "MySQL") THEN "DATABASE"
    ELSE IF Contains(message, "threadpool") THEN "SYSTEM"
    ELSE IF ContainsLower(message, "config") THEN "CONFIG"
    ELSE "GENERAL"

\* faulty variant of parse_log_entry: an entry is built whether or not the
\* log_entry pattern matches
parse_log_entry_unconditional(line) ==
    [timestamp |-> line.timestamp, level |-> line.level,
     thread_id |-> line.thread_id, module |-> line.module,
     line_number |-> line.line_number, message |-> line.message,
     log_type |-> classify_log_type(line.message)]

\* LogParser.parse_log_entry: None unless the log_entry pattern matches
parse_log_entry(line) ==
    IF line.matches
    THEN [timestamp |-> line.timestamp, level |-> line.level,
          thread_id |-> line.thread_id, module |-> line.module,
          line_number |-> line.line_number, message |-> line.message,
          log_type |-> classify_log_type(line.message)]
    ELSE None

\* the least number of values of a call record (`if len(values) >= 20`)
MinCdrValues == 20

\* LogParser.parse_cdr_entry: a record only for a list of at least 20 values
parse_cdr_entry(message) ==
    IF ~ \E k \in 1..Len(message) : CdrValueList(message[k]) # <<>>
    THEN None
    ELSE LET values == CdrValueList(message[CHOOSE k \in 1..Len(message) :
                                                CdrValueList(message[k]) # <<>>])
         IN  IF Len(values) >= MinCdrValues
             THEN [call_datetime |-> values[1],
                   timestamp_unix |-> IntOrZero(values[2]),
                   uid |-> values[3], caller_id |-> values[4],
                   source_number |-> values[5], source_name |-> values[6],
                   destination_number |-> values[7], destination_name |-> values[8],
                   context |-> values[9], channel |-> values[10],
                   destination_channel |-> values[11], trunk |-> values[12],
                   last_app |-> values[13], last_data |-> values[14],
                   duration |-> IntOrZero(values[15]),
                   ring_duration |-> IntOrZero(values[16]),
                   talk_duration |-> IntOrZero(values[17]),
                   disposition |-> values[18],
                   call_type |-> values[20],
                   unique_id |-> IF Len(values) > 20 THEN values[21] ELSE "",
                   parsed_data |-> values]
             ELSE None

\* _extract_sip_transmit
extract_sip_transmit(entry) ==
    IF ~ HasSipMatch(entry.message, "Transmitting SIP") THEN None
    ELSE
    LET g == SipGroups(FirstSipMatch(entry.message, "Transmitting SIP"))
    IN  [timestamp |-> entry.timestamp, direction |-> "TRANSMIT",
         message_type |-> "REQUEST", method |-> "Via:",
         bytes_size |-> g.bytes_size, remote_host |-> g.remote_host,
         remote_port |-> g.remote_port]

\* _extract_sip_receive
extract_sip_receive(entry) ==
    IF ~ HasSipMatch(entry.message, "Received SIP") THEN None
    ELSE
    LET g == SipGroups(FirstSipMatch(entry.message, "Received SIP"))
    IN  [timestamp |-> entry.timestamp, direction |-> "RECEIVE",
         message_type |-> "RESPONSE", method |-> "Via:",
         bytes_size |-> g.bytes_size, remote_host |-> g.remote_host,
         remote_port |-> g.remote_port]

\* faulty variant of extract_registration_event: the generic failure
\* keywords are tested before the generic success keywords
extract_registration_event_failure_first(entry) ==
    LET message == entry.message
        event_type ==
            IF Contains(message, "REGISTER attempt") \/ ContainsLower(message, "register attempt")
            THEN "ATTEMPT"
            ELSE IF Contains(message, "REGISTER response") \/ ContainsLower(message, "register response")
            THEN "RESPONSE"
            ELSE IF ContainsLower(message, "registration successful") THEN "SUCCESS"
            ELSE IF ContainsLower(message, "registration failed") THEN "FAILURE"
            ELSE IF \E word \in {"fail", "error", "timeout", "unauthorized"} :
                       ContainsLower(message, word)
            THEN "FAILURE"
            ELSE IF \E word \in {"success", "ok", "200"} : ContainsLower(message, word)
            THEN "SUCCESS"
            ELSE "ATTEMPT"
    IN  [timestamp |-> entry.timestamp, event_type |-> event_type,
         server_uri |-> None, client_uri |-> None]

\* _extract_registration_event (the URIs of the model's messages are None)
extract_registration_event(entry) ==
    LET message == entry.message
        event_type ==
            IF Contains(message, "REGISTER attempt") \/ ContainsLower(message, "register attempt")
            THEN "ATTEMPT"
            ELSE IF Contains(message, "REGISTER response") \/ ContainsLower(message, "register response")
            THEN "RESPONSE"
            ELSE IF ContainsLower(message, "registration successful") THEN "SUCCESS"
            ELSE IF ContainsLower(message, "registration failed") THEN "FAILURE"
            ELSE IF \E word \in {"success", "ok", "200"} : ContainsLower(message, word)
            THEN "SUCCESS"
            ELSE IF \E word \in {"fail", "error", "timeout", "unauthorized"} :
                       ContainsLower(message, word)
            THEN "FAILURE"
            ELSE "ATTEMPT"
    IN  [timestamp |-> entry.timestamp, event_type |-> event_type,
         server_uri |-> None, client_uri |-> None]

\* _extract_system_event (the model's messages carry no 'error: N')
extract_system_event(entry) ==
    LET message == entry.message
        category ==
            IF ContainsLower(message, "mysql") \/ ContainsLower(message, "database")
            THEN "DATABASE"
            ELSE IF ContainsLower(message, "sip") THEN "SIP"
            ELSE IF ContainsLower(message, "config") THEN "CONFIG"
            ELSE IF ContainsLower(message, "thread") THEN "SYSTEM"
            ELSE "GENERAL"
    IN  [timestamp |-> entry.timestamp, event_type |-> entry.level,
         category |-> category, description |-> message, error_code |-> None]

\* the five entity types, in the order the writer inserts them
TypeOrder == << "log_entries", "call_records", "sip_messages", "reg_events", "sys_events" >>
Types == { TypeOrder[k] : k \in 1..Len(TypeOrder) }

EmptySeqs == [t \in Types |-> <<>>]

\* faulty variant of RegistrationBranchRuns: the registration test is an
\* `if` of its own
RegistrationBranchIndependent(message) ==
    Contains(message, "REGISTER") \/ ContainsLower(message, "register")

\* whether the if / elif / elif chain of lines 121-133 reaches and takes the
\* registration branch
RegistrationBranchRuns(message) ==
    /\ ~ Contains(message, "Transmitting SIP")
    /\ ~ Contains(message, "Received SIP")
    /\ (Contains(message, "REGISTER") \/ ContainsLower(message, "register"))

\* the body of the while loop of _extract_all_data_from_chunk for one line:
\* what the line appends to each of the five lists
LineRecords(line) ==
    IF line.blank THEN EmptySeqs
    ELSE LET entry == parse_log_entry(line) IN
         IF entry = None THEN EmptySeqs
         ELSE LET message == entry.message
                  cdr == IF Contains(message, "INSERT INTO cdr")
                         THEN parse_cdr_entry(message) ELSE None
                  sip == IF Contains(message, "Transmitting SIP")
                         THEN extract_sip_transmit(entry)
                         ELSE IF Contains(message, "Received SIP")
                         THEN extract_sip_receive(entry)
                         ELSE None
              IN  [t \in Types |->
                     CASE t = "log_entries" -> << entry >>
                       [] t = "call_records" ->
                            IF cdr # None THEN << cdr >> ELSE <<>>
                       [] t = "sip_messages" ->
                            IF sip # None THEN << sip >> ELSE <<>>
                       [] t = "reg_events" ->
                            IF RegistrationBranchRuns(message)
                            THEN << extract_registration_event(entry) >>
                            ELSE <<>>
                       [] t = "sys_events" ->
                            IF entry.level \in {"ERROR", "WARNING"}
                            THEN << extract_system_event(entry) >>
                            ELSE <<>>]

RECURSIVE ExtractSeqs(_)
\* the five lists after the while loop has gone over `lines`
ExtractSeqs(lines) ==
    IF lines = <<>> THEN EmptySeqs
    ELSE LET rest == ExtractSeqs(Tail(lines))
             first == LineRecords(Head(lines))
         IN  [t \in Types |-> first[t] \o rest[t]]

\* _extract_all_data_from_chunk: the bundle of one chunk
extract_all_data_from_chunk(start_idx, lines) ==
    [chunk_id |-> start_idx, seqs |-> ExtractSeqs(lines)]

(***************************************************************************)
(* The chunker (parse_log_file, lines 59-64).                              *)
(***************************************************************************)
Min(a, b) == IF a < b THEN a ELSE b

\* len(range(0, total_lines, chunk_size)) for chunk_size # 0
RangeLen(total_lines, chunk_size) ==
    IF chunk_size < 0 THEN 0 ELSE (total_lines + chunk_size - 1) \div chunk_size

\* faulty variant of MakeChunks: end_idx is one too far, a chunk also takes
\* the first line of the next one
MakeChunksOverlap(lines, chunk_size) ==
    [k \in 1..RangeLen(Len(lines), chunk_size) |->
        [start_idx |-> (k - 1) * chunk_size,
         lines |-> SubSeq(lines, (k - 1) * chunk_size + 1,
                          Min(k * chunk_size + 1, Len(lines)))]]

\* faulty variant of MakeChunks: the last, shorter chunk is left out
MakeChunksDropsTail(lines, chunk_size) ==
    [k \in 1..(IF chunk_size < 0 THEN 0 ELSE Len(lines) \div chunk_size) |->
        [start_idx |-> (k - 1) * chunk_size,
         lines |-> SubSeq(lines, (k - 1) * chunk_size + 1, k * chunk_size)]]

\* the list `chunks`: (i, lines[i:end_idx]) for i in range(0, total_lines, chunk_size)
MakeChunks(lines, chunk_size) ==
    [k \in 1..RangeLen(Len(lines), chunk_size) |->
        [start_idx |-> (k - 1) * chunk_size,
         lines |-> SubSeq(lines, (k - 1) * chunk_size + 1,
                          Min(k * chunk_size, Len(lines)))]]

(***************************************************************************)
(* State of one run of parse_log_file.                                     *)
(***************************************************************************)
VARIABLES
    log_file_exists,  \* os.path.exists(log_file_path)
    log_file_readable,\* open()/read() of the file succeeds
    content,          \* the file's text, as content.split('\n') gives it
    chunk_size,       \* the caller's chunk size
    max_workers,      \* self.max_workers
    pc,               \* position of the coordinator in parse_log_file
    ret,              \* what parse_log_file returned ("none" while running)
    lines,            \* local `lines`
    chunks,           \* local `chunks`
    pool,             \* "none", "running", "terminated"
    task,             \* per chunk: "queued", "running", "done", "raised"
    worker,           \* per pool worker: 0 (idle) or the chunk it is on
    results,          \* per chunk: the bundle its worker returned, else None
    fwd,              \* position of `for result in results`
    result_queue,     \* items put and not yet got
    wpc,              \* position of the writer process
    wresult,          \* the writer's local `result`
    wnext,            \* the writer's next entity type, as index of TypeOrder
    totals,           \* the writer's five running totals
    store,            \* the tables of the database
    put_log,          \* history: every item put, in order
    got_log,          \* history: every item got, in order
    failed,           \* history: <<chunk_id, k>> of every batch insert that
                      \* failed, k the index of its type in TypeOrder
    chunk_faults,     \* how many chunk extractions raised
    insert_faults,    \* how many batch inserts failed
    timeouts          \* how many times get() raised Empty

(***************************************************************************)
(* State of one pool worker running _extract_all_data_from_chunk on the    *)
(* chunks it is given, one call after the other, line by line.             *)
(***************************************************************************)
VARIABLES
    xcalls,           \* the (start_idx, lines) of the worker's successive calls
    xcall,            \* the call under way or last returned (0: none yet)
    xpc,              \* "idle" between calls, "loop" inside the while loop
    xi,               \* local `i`
    xseqs,            \* the five local lists of the call under way
    xbundles,         \* history: the bundle each call returned
    xraised           \* history: <<call, line, stage>> of every exception
                      \* caught by the `except Exception` of the loop

(***************************************************************************)
(* State of the value splitter of parse_cdr_entry.                         *)
(***************************************************************************)
VARIABLES
    values_str,       \* group 1 of the cdr_insert pattern, as characters
    cpc,              \* "start", "split", "done"
    values,           \* local `values` after the character loop
    cdr_record        \* "pending", then "record" or "None": what is returned

extractVars == << xcalls, xcall, xpc, xi, xseqs, xbundles, xraised >>
cdrVars     == << values_str, cpc, values, cdr_record >>
auxVars     == << extractVars, cdrVars >>

vars == << xcalls, xcall, xpc, xi, xseqs, xbundles, xraised,
           values_str, cpc, values, cdr_record,
           log_file_exists, log_file_readable, content, chunk_size, max_workers,
           pc, ret, lines, chunks, pool, task, worker, results, fwd, result_queue,
           wpc, wresult, wnext, totals, store, put_log, got_log, failed,
           chunk_faults, insert_faults, timeouts >>

\* the chunk sizes the caller passes (the menu passes any integer on)
ChunkSizes == {-1, 0, 1, 2}
\* the pool sizes (the settings menu keeps max_workers >= 1)
WorkerCounts == {1, 2}

RECURSIVE SeqsUpTo(_, _)
\* the sequences over S of length 1..n
SeqsUpTo(S, n) ==
    IF n = 0 THEN {}
    ELSE LET shorter == SeqsUpTo(S, n - 1)
         IN  { << x >> : x \in S } \cup shorter
               \cup { Append(q, x) : q \in shorter, x \in S }

\* rows that earlier runs left in the tables
ExistingRows == [t \in Types |-> << [existing |-> t] >>]

\* no extraction call is given to the worker of the line-level machine
ExtractIdle ==
    /\ xcalls = <<>>
    /\ xcall = 0
    /\ xpc = "idle"
    /\ xi = 0
    /\ xseqs = EmptySeqs
    /\ xbundles = <<>>
    /\ xraised = {}

\* the value splitter is given nothing
CdrIdle ==
    /\ values_str = <<>>
    /\ cpc = "done"
    /\ values = <<>>
    /\ cdr_record = "pending"

Init ==
    /\ ExtractIdle
    /\ CdrIdle
    /\ log_file_exists \in BOOLEAN
    /\ log_file_readable \in BOOLEAN
    /\ (~ log_file_exists => ~ log_file_readable)
    /\ content \in (IF log_file_readable THEN SeqsUpTo(SampleLines, MaxLines) ELSE { <<>> })
    /\ chunk_size \in ChunkSizes
    /\ max_workers \in WorkerCounts
    /\ pc = "start"
    /\ ret = "none"
    /\ lines = <<>>
    /\ chunks = <<>>
    /\ pool = "none"
    /\ task = <<>>
    /\ worker = <<>>
    /\ results = <<>>
    /\ fwd = 0
    /\ result_queue = <<>>
    /\ wpc = "notstarted"
    /\ wresult = None
    /\ wnext = 0
    /\ totals = [t \in Types |-> 0]
    /\ store = ExistingRows
    /\ put_log = <<>>
    /\ got_log = <<>>
    /\ failed = {}
    /\ chunk_faults = 0
    /\ insert_faults = 0
    /\ timeouts = 0

inputVars   == << log_file_exists, log_file_readable, content, chunk_size, max_workers >>
poolVars    == << pool, task, worker, results, chunk_faults >>
writerVars  == << wpc, wresult, wnext, totals, store, got_log, failed,
                 insert_faults, timeouts >>

(***************************************************************************)
(* The coordinator: parse_log_file.                                        *)
(***************************************************************************)
\* `except Exception`: report and return False
ReturnFalse ==
    /\ ret' = "False"
    /\ pc' = "done"

\* lines 32-34: the file does not exist
CheckExists ==
    /\ pc = "start"
    /\ IF log_file_exists
       THEN pc' = "read" /\ ret' = ret
       ELSE ReturnFalse
    /\ UNCHANGED << auxVars, inputVars, lines, chunks, poolVars, fwd, result_queue,
                    writerVars, put_log >>

\* faulty variant of ReadFile: a failed read is taken for an empty file
ReadFileLenient ==
    /\ pc = "read"
    /\ lines' = content
    /\ pc' = "start_writer"
    /\ ret' = ret
    /\ UNCHANGED << auxVars, inputVars, chunks, poolVars, fwd, result_queue,
                    writerVars, put_log >>

\* lines 41-49: read the file, split it, create the queue
ReadFile ==
    /\ pc = "read"
    /\ IF log_file_readable
       THEN /\ lines' = content
            /\ pc' = "start_writer"
            /\ ret' = ret
       ELSE /\ ReturnFalse
            /\ lines' = lines
    /\ UNCHANGED << auxVars, inputVars, chunks, poolVars, fwd, result_queue,
                    writerVars, put_log >>

\* faulty variant of StartWriter: the coordinator goes on to the chunks
\* without having started the writer
StartWriterDeferred ==
    /\ pc = "start_writer"
    /\ pc' = "make_chunks"
    /\ UNCHANGED << auxVars, inputVars, ret, lines, chunks, poolVars, fwd, result_queue,
                    writerVars, put_log >>

\* lines 53-57 and 161-169: db_writer.start(); the writer reaches its loop
StartWriter ==
    /\ pc = "start_writer"
    /\ wpc' = "get"
    /\ totals' = [t \in Types |-> 0]
    /\ pc' = "make_chunks"
    /\ UNCHANGED << auxVars, inputVars, ret, lines, chunks, poolVars, fwd, result_queue,
                    wresult, wnext, store, got_log, failed, insert_faults,
                    timeouts, put_log >>

\* lines 60-70: build the chunks, create the pool, call starmap;
\* range() raises ValueError for a step of 0
Dispatch ==
    /\ pc = "make_chunks"
    /\ IF chunk_size = 0
       THEN /\ ReturnFalse
            /\ UNCHANGED << chunks, pool, task, worker, results >>
       ELSE /\ chunks' = MakeChunks(lines, chunk_size)
            /\ pool' = "running"
            /\ task' = [k \in 1..Len(chunks') |-> "queued"]
            /\ results' = [k \in 1..Len(chunks') |-> None]
            /\ worker' = [w \in 1..max_workers |-> 0]
            /\ pc' = "starmap"
            /\ ret' = ret
    /\ UNCHANGED << auxVars, inputVars, lines, chunk_faults, fwd, result_queue,
                    writerVars, put_log >>

(***************************************************************************)
(* The worker pool: starmap(_extract_all_data_from_chunk, chunks).         *)
(***************************************************************************)
\* a pool worker takes the next task of the task queue
WorkerTake(w) ==
    /\ pool = "running"
    /\ worker[w] = 0
    /\ \E k \in 1..Len(task) :
         /\ task[k] = "queued"
         /\ \A j \in 1..(k - 1) : task[j] # "queued"
         /\ task' = [task EXCEPT ![k] = "running"]
         /\ worker' = [worker EXCEPT ![w] = k]
    /\ UNCHANGED << auxVars, inputVars, pc, ret, lines, chunks, pool, results, chunk_faults,
                    fwd, result_queue, writerVars, put_log >>

\* faulty variant of WorkerReturn: the worker stores its log entries itself, as the
\* single-threaded analyzer does with store_log_entry
WorkerReturnStores(w) ==
    /\ pool = "running"
    /\ worker[w] # 0
    /\ results' = [results EXCEPT ![worker[w]] =
                     extract_all_data_from_chunk(chunks[worker[w]].start_idx,
                                                 chunks[worker[w]].lines)]
    /\ store' = [store EXCEPT !["log_entries"] =
                     @ \o results'[worker[w]].seqs["log_entries"]]
    /\ task' = [task EXCEPT ![worker[w]] = "done"]
    /\ worker' = [worker EXCEPT ![w] = 0]
    /\ UNCHANGED << auxVars, inputVars, pc, ret, lines, chunks, pool, chunk_faults,
                    fwd, result_queue, wpc, wresult, wnext, totals, got_log,
                    failed, insert_faults, timeouts, put_log >>

\* faulty variant of WorkerReturn: the worker is a producer of the channel
\* and puts its bundle there as soon as it is extracted
WorkerReturnPuts(w) ==
    /\ pool = "running"
    /\ worker[w] # 0
    /\ Len(result_queue) < maxsize
    /\ results' = [results EXCEPT ![worker[w]] =
                     extract_all_data_from_chunk(chunks[worker[w]].start_idx,
                                                 chunks[worker[w]].lines)]
    /\ result_queue' = Append(result_queue, results'[worker[w]])
    /\ put_log' = Append(put_log, results'[worker[w]])
    /\ task' = [task EXCEPT ![worker[w]] = "done"]
    /\ worker' = [worker EXCEPT ![w] = 0]
    /\ UNCHANGED << auxVars, inputVars, pc, ret, lines, chunks, pool, chunk_faults,
                    fwd, writerVars >>

\* the worker's call of _extract_all_data_from_chunk returns its bundle
WorkerReturn(w) ==
    /\ pool = "running"
    /\ worker[w] # 0
    /\ results' = [results EXCEPT ![worker[w]] =
                     extract_all_data_from_chunk(chunks[worker[w]].start_idx,
                                                 chunks[worker[w]].lines)]
    /\ task' = [task EXCEPT ![worker[w]] = "done"]
    /\ worker' = [worker EXCEPT ![w] = 0]
    /\ UNCHANGED << auxVars, inputVars, pc, ret, lines, chunks, pool, chunk_faults,
                    fwd, result_queue, writerVars, put_log >>

\* the worker's call raises (a fault outside the per-line try, e.g. MemoryError)
WorkerRaise(w) ==
    /\ pool = "running"
    /\ worker[w] # 0
    /\ chunk_faults < MaxChunkFaults
    /\ chunk_faults' = chunk_faults + 1
    /\ task' = [task EXCEPT ![worker[w]] = "raised"]
    /\ worker' = [worker EXCEPT ![w] = 0]
    /\ UNCHANGED << auxVars, inputVars, pc, ret, lines, chunks, pool, results,
                    fwd, result_queue, writerVars, put_log >>

\* faulty variant of StarmapReturn: the results are taken as soon as one task is
\* done (as with an unawaited map_async), the others are still None
StarmapReturnPartial ==
    /\ pc = "starmap"
    /\ \E k \in 1..Len(task) : task[k] = "done"
    /\ pool' = "terminated"
    /\ fwd' = 1
    /\ pc' = "forward"
    /\ UNCHANGED << auxVars, inputVars, ret, lines, chunks, task, worker, results,
                    chunk_faults, result_queue, writerVars, put_log >>

\* line 70: starmap returns the list of all results; the with block ends
StarmapReturn ==
    /\ pc = "starmap"
    /\ \A k \in 1..Len(task) : task[k] = "done"
    /\ pool' = "terminated"
    /\ fwd' = 1
    /\ pc' = IF Len(results) = 0 THEN "sentinel" ELSE "forward"
    /\ UNCHANGED << auxVars, inputVars, ret, lines, chunks, task, worker, results,
                    chunk_faults, result_queue, writerVars, put_log >>

\* line 70: starmap re-raises a task's exception; the with block terminates
\* the pool and the except clause of lines 85-87 returns False
StarmapRaise ==
    /\ pc = "starmap"
    /\ \E k \in 1..Len(task) : task[k] = "raised"
    /\ pool' = "terminated"
    /\ worker' = [w \in 1..max_workers |-> 0]
    /\ ReturnFalse
    /\ UNCHANGED << auxVars, inputVars, lines, chunks, task, results, chunk_faults,
                    fwd, result_queue, writerVars, put_log >>

(***************************************************************************)
(* The result channel: mp.Queue(maxsize).                                  *)
(***************************************************************************)
\* faulty variant of QueueFull: a queue created without maxsize is never full
QueueFullNever(queue) == FALSE

\* put() blocks while the queue holds maxsize items
QueueFull(queue) == Len(queue) >= maxsize

\* result_queue.put(item)
Put(item) ==
    /\ ~ QueueFull(result_queue)
    /\ result_queue' = Append(result_queue, item)
    /\ put_log' = Append(put_log, item)

\* faulty variant of Truthy: a bundle counts only when one of its lists is not empty
TruthyNonEmpty(result) ==
    /\ result # None
    /\ \E t \in Types : result.seqs[t] # <<>>

\* `if result:` a bundle is a dict of six keys, hence true
Truthy(result) == result # None

\* lines 73-75: one turn of `for result in results`
Forward ==
    /\ pc = "forward"
    /\ IF Truthy(results[fwd])
       THEN Put(results[fwd])
       ELSE UNCHANGED << result_queue, put_log >>
    /\ fwd' = fwd + 1
    /\ pc' = IF fwd = Len(results) THEN "sentinel" ELSE "forward"
    /\ UNCHANGED << auxVars, inputVars, ret, lines, chunks, poolVars, writerVars >>

\* faulty variant of PutSentinel: the coordinator goes on to join() without
\* having put the sentinel
PutSentinelForgotten ==
    /\ pc = "sentinel"
    /\ pc' = "join"
    /\ UNCHANGED << auxVars, inputVars, ret, lines, chunks, poolVars, fwd, writerVars,
                    result_queue, put_log >>

\* line 78: result_queue.put(None)
PutSentinel ==
    /\ pc = "sentinel"
    /\ Put(None)
    /\ pc' = "join"
    /\ UNCHANGED << auxVars, inputVars, ret, lines, chunks, poolVars, fwd, writerVars >>

\* lines 80-83: db_writer.join() returns once the writer has ended
Join ==
    /\ pc = "join"
    /\ wpc = "terminated"
    /\ ret' = "True"
    /\ pc' = "done"
    /\ UNCHANGED << auxVars, inputVars, lines, chunks, poolVars, fwd, result_queue,
                    writerVars, put_log >>

(***************************************************************************)
(* The batch writer: _batch_database_writer.                               *)
(***************************************************************************)
\* faulty variant of NextType: the `if result[...]:` tests are left out, the
\* insert of every type is issued
NextTypeUnguarded(result, from) == IF from <= Len(TypeOrder) THEN from ELSE 0

\* the first type at or after position `from` whose `if result[...]:` test
\* is true, as index of TypeOrder; 0 when there is none
NextType(result, from) ==
    IF \E k \in from..Len(TypeOrder) : result.seqs[TypeOrder[k]] # <<>>
    THEN CHOOSE k \in from..Len(TypeOrder) :
            /\ result.seqs[TypeOrder[k]] # <<>>
            /\ \A j \in from..(k - 1) : result.seqs[TypeOrder[j]] = <<>>
    ELSE 0

\* faulty variant of batch_insert: the batch replaces the rows of the table
batch_insert_replace(table, records) == records

\* _batch_insert_*: executemany and commit append the batch to the table
batch_insert(table, records) == table \o records

\* lines 173-178: get() returns an item; the sentinel breaks the loop
WriterGet ==
    /\ wpc = "get"
    /\ result_queue # <<>>
    /\ result_queue' = Tail(result_queue)
    /\ got_log' = Append(got_log, Head(result_queue))
    /\ IF Head(result_queue) = None
       THEN /\ wpc' = "terminated"
            /\ UNCHANGED << wresult, wnext >>
       ELSE IF NextType(Head(result_queue), 1) = 0
       THEN /\ wpc' = "get"
            /\ UNCHANGED << wresult, wnext >>
       ELSE /\ wpc' = "insert"
            /\ wresult' = Head(result_queue)
            /\ wnext' = NextType(Head(result_queue), 1)
    /\ UNCHANGED << auxVars, inputVars, pc, ret, lines, chunks, poolVars, fwd,
                    totals, store, failed, insert_faults, timeouts, put_log >>

\* faulty variant of WriterTimeout: Empty is not caught apart and ends the loop
WriterTimeoutBreaks ==
    /\ wpc = "get"
    /\ result_queue = <<>>
    /\ timeouts < MaxTimeouts
    /\ timeouts' = timeouts + 1
    /\ wpc' = "terminated"
    /\ UNCHANGED << auxVars, inputVars, pc, ret, lines, chunks, poolVars, fwd, result_queue,
                    wresult, wnext, totals, store, got_log, failed, insert_faults,
                    put_log >>

\* lines 200-201: get(timeout=30) raises Empty; the loop continues
WriterTimeout ==
    /\ wpc = "get"
    /\ result_queue = <<>>
    /\ timeouts < MaxTimeouts
    /\ timeouts' = timeouts + 1
    /\ wpc' = "get"
    /\ UNCHANGED << auxVars, inputVars, pc, ret, lines, chunks, poolVars, fwd, result_queue,
                    wresult, wnext, totals, store, got_log, failed, insert_faults,
                    put_log >>

\* what the writer does after the batch of type TypeOrder[wnext]
WriterAdvance ==
    IF NextType(wresult, wnext + 1) = 0
    THEN wpc' = "get" /\ wnext' = 0 /\ wresult' = None
    ELSE wpc' = "insert" /\ wnext' = NextType(wresult, wnext + 1) /\ wresult' = wresult

\* lines 178-196: the batch insert of one type commits and is counted
WriterInsert ==
    /\ wpc = "insert"
    /\ store' = [store EXCEPT ![TypeOrder[wnext]] =
                    batch_insert(@, wresult.seqs[TypeOrder[wnext]])]
    /\ totals' = [totals EXCEPT ![TypeOrder[wnext]] =
                    @ + Len(wresult.seqs[TypeOrder[wnext]])]
    /\ WriterAdvance
    /\ UNCHANGED << auxVars, inputVars, pc, ret, lines, chunks, poolVars, fwd, result_queue,
                    got_log, failed, insert_faults, timeouts, put_log >>

\* faulty variant of WriterInsertFails: the total is increased before the
\* insert is called, hence also for a batch whose insert raises
WriterInsertFailsCounted ==
    /\ wpc = "insert"
    /\ insert_faults < MaxInsertFaults
    /\ insert_faults' = insert_faults + 1
    /\ failed' = failed \cup { << wresult.chunk_id, wnext >> }
    /\ totals' = [totals EXCEPT ![TypeOrder[wnext]] =
                    @ + Len(wresult.seqs[TypeOrder[wnext]])]
    /\ wpc' = "get"
    /\ wnext' = 0
    /\ wresult' = None
    /\ UNCHANGED << auxVars, inputVars, pc, ret, lines, chunks, poolVars, fwd, result_queue,
                    store, got_log, timeouts, put_log >>

\* faulty variant of WriterInsertFails: each insert has a try of its own, the
\* writer goes on with the next type of the same bundle
WriterInsertFailsContinues ==
    /\ wpc = "insert"
    /\ insert_faults < MaxInsertFaults
    /\ insert_faults' = insert_faults + 1
    /\ failed' = failed \cup { << wresult.chunk_id, wnext >> }
    /\ IF \E k \in (wnext + 1)..Len(TypeOrder) : wresult.seqs[TypeOrder[k]] # <<>>
       THEN /\ wpc' = "insert"
            /\ wnext' = CHOOSE k \in (wnext + 1)..Len(TypeOrder) :
                            /\ wresult.seqs[TypeOrder[k]] # <<>>
                            /\ \A j \in (wnext + 1)..(k - 1) :
                                  wresult.seqs[TypeOrder[j]] = <<>>
            /\ wresult' = wresult
       ELSE /\ wpc' = "get"
            /\ wnext' = 0
            /\ wresult' = None
    /\ UNCHANGED << auxVars, inputVars, pc, ret, lines, chunks, poolVars, fwd, result_queue,
                    totals, store, got_log, timeouts, put_log >>

\* faulty variant of WriterInsertFails: the exception of the insert is not caught
\* and ends the writer process
WriterInsertFailsUncaught ==
    /\ wpc = "insert"
    /\ insert_faults < MaxInsertFaults
    /\ insert_faults' = insert_faults + 1
    /\ failed' = failed \cup { << wresult.chunk_id, wnext >> }
    /\ wpc' = "terminated"
    /\ wnext' = 0
    /\ wresult' = None
    /\ UNCHANGED << auxVars, inputVars, pc, ret, lines, chunks, poolVars, fwd, result_queue,
                    totals, store, got_log, timeouts, put_log >>

\* lines 202-203: a batch insert raises; nothing of it is committed, the
\* error is printed and the loop goes back to get()
WriterInsertFails ==
    /\ wpc = "insert"
    /\ insert_faults < MaxInsertFaults
    /\ insert_faults' = insert_faults + 1
    /\ failed' = failed \cup { << wresult.chunk_id, wnext >> }
    /\ wpc' = "get"
    /\ wnext' = 0
    /\ wresult' = None
    /\ UNCHANGED << auxVars, inputVars, pc, ret, lines, chunks, poolVars, fwd, result_queue,
                    totals, store, got_log, timeouts, put_log >>

Next ==
    \/ CheckExists
    \/ ReadFile
    \/ StartWriter
    \/ Dispatch
    \/ \E w \in 1..Len(worker) : WorkerTake(w)
    \/ \E w \in 1..Len(worker) : WorkerReturn(w)
    \/ \E w \in 1..Len(worker) : WorkerRaise(w)
    \/ StarmapReturn
    \/ StarmapRaise
    \/ Forward
    \/ PutSentinel
    \/ Join
    \/ WriterGet
    \/ WriterTimeout
    \/ WriterInsert
    \/ WriterInsertFails

Spec == Init /\ [][Next]_vars

\* the steps of the coordinator process
CoordinatorStep ==
    CheckExists \/ ReadFile \/ StartWriter \/ Dispatch \/ Forward \/ PutSentinel \/ Join

\* the steps of the pool in which no chunk raises
PoolStep ==
    \/ \E w \in 1..Len(worker) : WorkerTake(w)
    \/ \E w \in 1..Len(worker) : WorkerReturn(w)
    \/ StarmapReturn

\* the steps of the writer process in which an item is got or a batch is
\* committed
WriterStep == WriterGet \/ WriterInsert

\* the three parties are processes of the operating system: each one goes
\* on as long as it can take a step (a put or a get that can return does)
LiveSpec ==
    /\ Init /\ [][Next]_vars
    /\ WF_vars(CoordinatorStep)
    /\ WF_vars(PoolStep)
    /\ WF_vars(WriterStep)

(***************************************************************************)
(* The line-level machine: one worker process runs                         *)
(* _extract_all_data_from_chunk on its chunks, one line per step.          *)
(***************************************************************************)
\* the longest chunk given to the line-level machine
MaxChunkLines == 2
\* how many line-level exceptions a run of the line-level machine has
MaxLineFaults == 1
\* the longest message, in tokens, of the single-line chunks
MaxMessageTokens == 2

SipRegLine  == MkLine(FALSE, TRUE, "2024-01-01 10:00:03", "ERROR", 104, "chan_sip", 30, <<"tx_sip", "REGISTER">>)

\* the lines the chunks of the line-level machine are made of
ExtractLines == {BlankLine, GarbageLine, CdrLine, SipLine, RegLine, SipRegLine}

\* the tokens a message is made of
Tokens == {"tx_sip", "rx_sip", "tx_sip_nogroups", "cdr22", "cdr5", "REGISTER",
           "registered", "MySQL", "threadpool", "config", "sip", "timeout", "hello",
           "database"}

\* the tokens of the messages about registration
RegTokens == {"REGISTER", "REGISTER attempt", "REGISTER response",
              "unauthorized REGISTER", "registration successful",
              "registration failed", "ok", "timeout", "hello"}

\* the levels of the single-line chunks
Levels == {"INFO", "WARNING", "ERROR"}

\* a line that matches the log_entry pattern, with the given level and message
MessageLine(lvl, msg) == MkLine(FALSE, TRUE, "2024-01-01 10:00:09", lvl, 105, "pbx", 40, msg)

\* the stage of the try block (lines 107-144) that appends to a list:
\* 1 parse_log_entry, 2 parse_cdr_entry, 3 the SIP / registration
\* extractors, 4 _extract_system_event
StageOf(t) ==
    CASE t = "log_entries"  -> 1
      [] t = "call_records" -> 2
      [] t = "sip_messages" -> 3
      [] t = "reg_events"   -> 3
      [] t = "sys_events"   -> 4

\* whether the try block runs the stage for the line, so that an exception
\* can be raised in it
StageRuns(line, stage) ==
    /\ ~ line.blank
    /\ line.matches
    /\ CASE stage = 1 -> TRUE
         [] stage = 2 -> Contains(line.message, "INSERT INTO cdr")
         [] stage = 3 -> \/ Contains(line.message, "Transmitting SIP")
                         \/ Contains(line.message, "Received SIP")
                         \/ Contains(line.message, "REGISTER")
                         \/ ContainsLower(line.message, "register")
         [] stage = 4 -> line.level \in {"ERROR", "WARNING"}

\* what the line has appended to the five lists when the stage raises:
\* the appends of the stages before it
LineRecordsBefore(line, stage) ==
    [t \in Types |-> IF StageOf(t) < stage THEN LineRecords(line)[t] ELSE <<>>]

\* the pipeline is not run
PipelineIdle ==
    /\ log_file_exists = FALSE
    /\ log_file_readable = FALSE
    /\ content = <<>>
    /\ chunk_size = 1
    /\ max_workers = 1
    /\ pc = "start"
    /\ ret = "none"
    /\ lines = <<>>
    /\ chunks = <<>>
    /\ pool = "none"
    /\ task = <<>>
    /\ worker = <<>>
    /\ results = <<>>
    /\ fwd = 0
    /\ result_queue = <<>>
    /\ wpc = "notstarted"
    /\ wresult = None
    /\ wnext = 0
    /\ totals = [t \in Types |-> 0]
    /\ store = ExistingRows
    /\ put_log = <<>>
    /\ got_log = <<>>
    /\ failed = {}
    /\ chunk_faults = 0
    /\ insert_faults = 0
    /\ timeouts = 0

\* the chunks given to the worker between two calls on the same chunk
OtherChunks ==
    { [start_idx |-> 4, lines |-> << CdrLine, RegLine >>],
      [start_idx |-> 4, lines |-> << SipLine >>] }

\* the worker is given the same chunk twice with another chunk in between,
\* or one chunk of one line with any message, or with any message about
\* registration
ExtractInit ==
    /\ PipelineIdle
    /\ CdrIdle
    /\ xcalls \in
         { << [start_idx |-> 0, lines |-> q], other, [start_idx |-> 0, lines |-> q] >> :
              q \in SeqsUpTo(ExtractLines, MaxChunkLines), other \in OtherChunks }
         \cup
         { << [start_idx |-> 0, lines |-> << MessageLine(lvl, msg) >>] >> :
              lvl \in Levels, msg \in SeqsUpTo(Tokens, MaxMessageTokens) \cup { <<>> } }
         \cup
         { << [start_idx |-> 0, lines |-> << MessageLine("INFO", msg) >>] >> :
              msg \in SeqsUpTo(RegTokens, MaxMessageTokens) }
    /\ xcall = 0
    /\ xpc = "idle"
    /\ xi = 0
    /\ xseqs = EmptySeqs
    /\ xbundles = <<>>
    /\ xraised = {}

pipelineVars == << inputVars, pc, ret, lines, chunks, poolVars, fwd, result_queue,
                   writerVars, put_log >>

\* faulty variant of ExtractCall: the five lists outlive the call
ExtractCallKeepsLists ==
    /\ xpc = "idle"
    /\ xcall < Len(xcalls)
    /\ xcall' = xcall + 1
    /\ xi' = 0
    /\ xpc' = "loop"
    /\ UNCHANGED << xcalls, xseqs, xbundles, xraised, cdrVars, pipelineVars >>

\* lines 92-101: a call starts with a new parser, five empty lists and i = 0
ExtractCall ==
    /\ xpc = "idle"
    /\ xcall < Len(xcalls)
    /\ xcall' = xcall + 1
    /\ xseqs' = EmptySeqs
    /\ xi' = 0
    /\ xpc' = "loop"
    /\ UNCHANGED << xcalls, xbundles, xraised, cdrVars, pipelineVars >>

\* lines 101-147: one turn of the while loop in which nothing is raised
ExtractLine ==
    /\ xpc = "loop"
    /\ xi < Len(xcalls[xcall].lines)
    /\ xseqs' = [t \in Types |->
                    xseqs[t] \o LineRecords(xcalls[xcall].lines[xi + 1])[t]]
    /\ xi' = xi + 1
    /\ UNCHANGED << xcalls, xcall, xpc, xbundles, xraised, cdrVars, pipelineVars >>

\* lines 107-147: one turn of the while loop in which the stage raises;
\* `except Exception: pass` and then i += 1
ExtractLineRaises(stage) ==
    /\ xpc = "loop"
    /\ xi < Len(xcalls[xcall].lines)
    /\ Cardinality(xraised) < MaxLineFaults
    /\ StageRuns(xcalls[xcall].lines[xi + 1], stage)
    /\ xseqs' = [t \in Types |->
                    xseqs[t] \o LineRecordsBefore(xcalls[xcall].lines[xi + 1], stage)[t]]
    /\ xraised' = xraised \cup { << xcall, xi + 1, stage >> }
    /\ xi' = xi + 1
    /\ UNCHANGED << xcalls, xcall, xpc, xbundles, cdrVars, pipelineVars >>

\* lines 149-156: the loop is over, the call returns the bundle
ExtractReturn ==
    /\ xpc = "loop"
    /\ xi = Len(xcalls[xcall].lines)
    /\ xbundles' = Append(xbundles, [chunk_id |-> xcalls[xcall].start_idx,
                                     seqs |-> xseqs])
    /\ xpc' = "idle"
    /\ UNCHANGED << xcalls, xcall, xi, xseqs, xraised, cdrVars, pipelineVars >>

ExtractNext ==
    \/ ExtractCall
    \/ ExtractLine
    \/ \E stage \in 1..4 : ExtractLineRaises(stage)
    \/ ExtractReturn

ExtractSpec == ExtractInit /\ [][ExtractNext]_vars

(***************************************************************************)
(* The value splitter of LogParser.parse_cdr_entry, on characters.         *)
(***************************************************************************)
\* the longest value list given to the splitter
MaxCdrValues == 21

RECURSIVE StripLeft(_)
\* str.lstrip("'")
StripLeft(v) == IF v # <<>> /\ Head(v) = "'" THEN StripLeft(Tail(v)) ELSE v

RECURSIVE StripRight(_)
\* str.rstrip("'")
StripRight(v) ==
    IF v # <<>> /\ v[Len(v)] = "'" THEN StripRight(SubSeq(v, 1, Len(v) - 1)) ELSE v

\* current_value.strip("'")
Strip(v) == StripRight(StripLeft(v))

\* the loop variables hold values: vals is a list and current_value a string
\* already built, in_quotes a boolean (the test makes TLC compute the
\* arguments at every call instead of keeping them as pending expressions)
Evaluated(vals, current_value, in_quotes) ==
    Len(vals) >= 0 /\ Len(current_value) >= 0 /\ in_quotes \in BOOLEAN

RECURSIVE SplitLoop(_, _, _, _)
\* lines 81-92: the `for char in values_str` loop from the state
\* (vals, current_value, in_quotes) over the characters left: one turn for
\* one character, and for more the loop over the first half followed by the
\* loop over the second half from the state the first half leaves
SplitLoop(chars, vals, current_value, in_quotes) ==
    IF chars = <<>> \/ ~ Evaluated(vals, current_value, in_quotes)
    THEN [vals |-> vals, current_value |-> current_value, in_quotes |-> in_quotes]
    ELSE IF Len(chars) = 1
    THEN LET char == chars[1]
             quotes == IF char = "'" THEN ~ in_quotes ELSE in_quotes
         IN  IF char = "," /\ ~ in_quotes
             THEN [vals |-> Append(vals, Strip(current_value)),
                   current_value |-> <<>>,
                   in_quotes |-> in_quotes]
             ELSE [vals |-> vals,
                   current_value |->
                       IF ~ (char = "'" /\ (~ quotes \/ current_value = <<>>))
                       THEN Append(current_value, char)
                       ELSE current_value,
                   in_quotes |-> quotes]
    ELSE LET half == Len(chars) \div 2
             first == SplitLoop(SubSeq(chars, 1, half), vals, current_value, in_quotes)
         IN  SplitLoop(SubSeq(chars, half + 1, Len(chars)),
                       first.vals, first.current_value, first.in_quotes)

\* lines 77-95: the list `values` of a captured value list
SplitValues(chars) ==
    LET after == SplitLoop(chars, <<>>, <<>>, FALSE)
    IN  IF after.current_value # <<>>
        THEN Append(after.vals, Strip(after.current_value))
        ELSE after.vals

\* the ways one value of the list is written: nothing, '', a, 'a', 'a,a'
\* and '' after a space
ValueShapes ==
    { <<>>, << "'", "'" >>, << "a" >>, << "'", "a", "'" >>,
      << "'", "a", ",", "a", "'" >>, << " ", "'", "'" >> }

RECURSIVE Repeat(_, _)
\* n times the value, each followed by a comma
Repeat(value, n) == IF n = 0 THEN <<>> ELSE value \o << "," >> \o Repeat(value, n - 1)

\* a list of n values: one first, n - 2 middle values and a last one
ValueList(n, first, middle, last) ==
    IF n = 1 THEN last
    ELSE first \o << "," >> \o Repeat(middle, n - 2) \o last

\* the splitter is given a captured value list of 1..MaxCdrValues values
CdrInit ==
    /\ PipelineIdle
    /\ ExtractIdle
    /\ values_str \in { ValueList(n, first, middle, last) :
                           n \in 1..MaxCdrValues, first \in ValueShapes,
                           middle \in ValueShapes, last \in ValueShapes }
    /\ cpc = "start"
    /\ values = <<>>
    /\ cdr_record = "pending"

\* lines 77-95: the character loop and the append of the last value
CdrSplit ==
    /\ cpc = "start"
    /\ values' = SplitValues(values_str)
    /\ cpc' = "split"
    /\ UNCHANGED << values_str, cdr_record, extractVars, pipelineVars >>

\* lines 98-123: a record is returned for at least 20 values, else None
CdrMap ==
    /\ cpc = "split"
    /\ cdr_record' = IF Len(values) >= MinCdrValues THEN "record" ELSE "None"
    /\ cpc' = "done"
    /\ UNCHANGED << values_str, values, extractVars, pipelineVars >>

CdrNext == CdrSplit \/ CdrMap

CdrSpec == CdrInit /\ [][CdrNext]_vars

(***************************************************************************)
(* Auxiliary definitions of the properties.                                *)
(***************************************************************************)
WriterStarted == wpc # "notstarted"

\* how many times the sentinel has been put
SentinelCount == Cardinality({ k \in 1..Len(put_log) : put_log[k] = None })

IsBundle(item) == item # None

\* the bundles of a log of channel items, in order
BundlesOf(log) == SelectSeq(log, IsBundle)

\* index of a type in TypeOrder
TypeIndex(t) == CHOOSE k \in 1..Len(TypeOrder) : TypeOrder[k] = t

RECURSIVE Flatten(_, _)
\* the records of type t of a sequence of bundles, in order
Flatten(bundles, t) ==
    IF bundles = <<>> THEN <<>>
    ELSE Head(bundles).seqs[t] \o Flatten(Tail(bundles), t)

\* the records of type t of bundle b that the writer commits, given the
\* batch inserts that failed: none from the failed type on, in TypeOrder
Committed(b, t) ==
    IF \E k \in 1..TypeIndex(t) : << b.chunk_id, k >> \in failed
    THEN <<>> ELSE b.seqs[t]

RECURSIVE FlattenCommitted(_, _)
FlattenCommitted(bundles, t) ==
    IF bundles = <<>> THEN <<>>
    ELSE Committed(Head(bundles), t) \o FlattenCommitted(Tail(bundles), t)

AllEmpty(b) == \A t \in Types : b.seqs[t] = <<>>

(***************************************************************************)
(* C1: in every run of parse_log_file in which the writer process was      *)
(* started, whatever the chunk size and worker count, the sentinel has     *)
(* been enqueued and the writer has terminated when parse_log_file         *)
(* returns (success or failure).                                           *)
(***************************************************************************)
C1_WriterEndedAtReturn ==
    (pc = "done" /\ WriterStarted) =>
        (SentinelCount >= 1 /\ wpc = "terminated")

(***************************************************************************)
(* C2: the channel never holds more than maxsize items; a put happens only *)
(* when the channel is not full, and a producer that finds it full does    *)
(* not move; every item put is either still in the channel or was got by   *)
(* the writer, in the order of the puts (nothing dropped or overwritten).  *)
(***************************************************************************)
C2_ChannelInv ==
    /\ Len(result_queue) <= maxsize
    /\ put_log = got_log \o result_queue

C2_PutStep ==
    /\ put_log' # put_log =>
          /\ Len(result_queue) < maxsize
          /\ result_queue' = Append(result_queue, put_log'[Len(put_log')])
    /\ (Len(result_queue) >= maxsize /\ pc \in {"forward", "sentinel"}) =>
          (pc' = pc /\ fwd' = fwd /\ put_log' = put_log)

\* C2: the channel invariant holds in every state and every step obeys the
\* put rule
C2_Backpressure == [] C2_ChannelInv /\ [][C2_PutStep]_vars

\* the channel is full while the coordinator has a further bundle to put
C2_Witness ==
    /\ pc = "forward"
    /\ Len(result_queue) = maxsize
    /\ got_log # <<>>

(***************************************************************************)
(* C3: the number of bundles that the extraction workers have produced and *)
(* the writer has not yet consumed is at most the channel capacity plus    *)
(* the number of workers.                                                  *)
(***************************************************************************)
ProducedBundles == Cardinality({ k \in 1..Len(task) : task[k] = "done" })

\* bundles produced by the workers and not yet got by the writer
PendingBundles == ProducedBundles - Len(BundlesOf(got_log))

C4_SentinelLast ==
    /\ SentinelCount <= 1
    /\ SentinelCount = 1 =>
          /\ put_log[Len(put_log)] = None
          /\ \A k \in 1..Len(task) : task[k] = "done"
          /\ BundlesOf(put_log) = results
    /\ wpc = "terminated" => got_log = put_log

\* C4: the sentinel is put last, and exactly once in every run that started
\* the writer
C4_SentinelExactlyOnce ==
    /\ C4_SentinelLast
    /\ (pc = "done" /\ WriterStarted) => SentinelCount = 1

(***************************************************************************)
(* C5: when the processing of one chunk raises, only that chunk's results  *)
(* are lost: the run completes, the sentinel is sent and the bundles of    *)
(* all other chunks are forwarded and persisted.                           *)
(***************************************************************************)
C5_ChunkFaultIsolated ==
    (pc = "done" /\ \E k \in 1..Len(task) : task[k] = "raised") =>
        /\ ret = "True"
        /\ SentinelCount = 1
        /\ \A k \in 1..Len(task) :
              task[k] # "raised" =>
                 \E j \in 1..Len(got_log) :
                    /\ got_log[j] # None
                    /\ got_log[j].chunk_id = chunks[k].start_idx

(***************************************************************************)
(* C6: single-writer discipline.  The store changes only in a step of the  *)
(* batch writer at a batch insert (never in a step of the coordinator or   *)
(* of a worker), and a worker carries no state from chunk to chunk: the    *)
(* bundle of a chunk is the extraction of that chunk's lines alone,        *)
(* whichever worker ran it and whatever that worker ran before.            *)
(***************************************************************************)
C6_StatelessWorkers ==
    \A k \in 1..Len(task) :
        task[k] = "done" =>
            results[k] = extract_all_data_from_chunk(chunks[k].start_idx, chunks[k].lines)

C6_StoreStep ==
    store' # store =>
        /\ WriterStarted /\ wpc = "insert"
        /\ UNCHANGED << pc, ret, lines, chunks, pool, task, worker, results, fwd,
                        put_log, result_queue >>

\* C6: workers are stateless and only writer insert steps change the store
C6_SingleWriter == [] C6_StatelessWorkers /\ [][C6_StoreStep]_vars

\* one worker has run several chunks and the writer has written
C6_Witness ==
    /\ max_workers = 1
    /\ Len(task) >= 2
    /\ \A k \in 1..Len(task) : task[k] = "done"
    /\ store # ExistingRows
    /\ pc # "done"

(***************************************************************************)
(* C7: in a run with no persistence failure, when parse_log_file returns   *)
(* True the rows added to each of the five tables are exactly the records  *)
(* of that type of all bundles, each once, and the rows that were there    *)
(* before are unchanged.                                                   *)
(***************************************************************************)
C7_AppendedExactlyOnce ==
    (ret = "True" /\ insert_faults = 0) =>
        \A t \in Types : store[t] = ExistingRows[t] \o Flatten(results, t)

\* a successful run of several chunks that added rows to several tables
C7_Witness ==
    /\ ret = "True"
    /\ insert_faults = 0
    /\ Len(results) >= 2
    /\ Len(store["log_entries"]) >= 3
    /\ Len(store["call_records"]) >= 2
    /\ Len(store["reg_events"]) >= 2

(***************************************************************************)
(* C8: the writer loop ends only by getting the sentinel; a receive        *)
(* timeout leaves the writer waiting, however many there are in a row, and *)
(* changes neither the store nor the running totals (nor the channel).     *)
(***************************************************************************)
C8_WriterStep ==
    /\ (wpc # "terminated" /\ wpc' = "terminated") =>
          /\ wpc = "get"
          /\ result_queue # <<>>
          /\ Head(result_queue) = None
    /\ timeouts' # timeouts =>
          /\ wpc' = "get"
          /\ UNCHANGED << store, totals, result_queue, got_log >>

\* C8: every step obeys the rule of the writer loop's end and of timeouts
C8_TimeoutKeepsWaiting == [][C8_WriterStep]_vars

\* two timeouts in a row, the writer still waits
C8_Witness ==
    /\ timeouts >= 2
    /\ got_log = <<>>
    /\ wpc = "get"

(***************************************************************************)
(* C9: a batch insert that fails is not retried and does not end the       *)
(* writer: the step commits and counts nothing and the writer goes back to *)
(* get; when the writer has ended it has got every item put, and the       *)
(* tables hold every batch of every bundle except the failed batches (and  *)
(* what the writer skips of the same bundle); the run returns True.        *)
(***************************************************************************)
C9_FailStep ==
    insert_faults' # insert_faults =>
        /\ wpc' = "get"
        /\ UNCHANGED << store, totals, result_queue, got_log >>

C9_AfterFailure ==
    /\ wpc = "terminated" =>
          /\ got_log = put_log
          /\ \A t \in Types :
                store[t] = ExistingRows[t] \o FlattenCommitted(BundlesOf(got_log), t)
    /\ (pc = "done" /\ failed # {}) => ret = "True"

\* C9: a failed batch insert neither stops the writer nor the run
C9_InsertFailureTolerated == [] C9_AfterFailure /\ [][C9_FailStep]_vars

\* the first batch of the first bundle failed, later bundles were persisted
\* and the run returned True
C9_Witness ==
    /\ ret = "True"
    /\ << 0, 1 >> \in failed
    /\ Len(store["log_entries"]) > Len(ExistingRows["log_entries"])

(***************************************************************************)
(* C10: one bundle per chunk is forwarded, all-empty bundles included:     *)
(* once the sentinel is in, the bundles put before it are the bundles of   *)
(* all chunks, one per chunk in chunk order, and the writer that ended has *)
(* got a bundle for every chunk.                                           *)
(***************************************************************************)
C10_OneBundlePerChunk ==
    /\ SentinelCount >= 1 =>
          /\ Len(BundlesOf(put_log)) = Len(chunks)
          /\ \A k \in 1..Len(chunks) :
                /\ put_log[k] # None
                /\ put_log[k].chunk_id = chunks[k].start_idx
    /\ wpc = "terminated" =>
          /\ Len(BundlesOf(got_log)) = Len(chunks)
          /\ \A k \in 1..Len(chunks) : got_log[k].chunk_id = chunks[k].start_idx

\* the writer ended after getting a bundle whose five lists are all empty
C10_Witness ==
    /\ wpc = "terminated"
    /\ Len(chunks) >= 2
    /\ \E k \in 1..Len(got_log) : got_log[k] # None /\ AllEmpty(got_log[k])

(***************************************************************************)
(* C11: for the same input lines, the per-type totals that a fault-free    *)
(* run persists do not depend on the pool size nor on the (positive)       *)
(* chunk size: they are the totals of the extraction of the whole input.   *)
(***************************************************************************)
C11_TotalsFunctionOfInput ==
    (ret = "True" /\ chunk_size > 0 /\ insert_faults = 0) =>
        \A t \in Types :
            /\ totals[t] = Len(ExtractSeqs(content)[t])
            /\ Len(store[t]) = Len(ExistingRows[t]) + Len(ExtractSeqs(content)[t])

\* a run over three lines cut in a full and a shorter chunk, on two workers
C11_Witness ==
    /\ ret = "True"
    /\ insert_faults = 0
    /\ chunk_size = 2
    /\ max_workers = 2
    /\ Len(content) = 3
    /\ totals["log_entries"] = 3
    /\ totals["call_records"] >= 1

(***************************************************************************)
(* C12: when the input file does not exist or cannot be read,              *)
(* parse_log_file returns False and the pipeline does not start: nothing   *)
(* is put on the channel, no writer is started, no worker runs and the     *)
(* store is left as it was.                                                *)
(***************************************************************************)
C12_NoPipelineWithoutInput ==
    (~ log_file_exists \/ ~ log_file_readable) =>
        /\ ret # "True"
        /\ (pc = "done" => ret = "False")
        /\ wpc = "notstarted"
        /\ pool = "none"
        /\ chunks = <<>>
        /\ put_log = <<>>
        /\ result_queue = <<>>
        /\ store = ExistingRows

\* the run over a file that exists but cannot be read has returned
C12_Witness ==
    /\ log_file_exists
    /\ ~ log_file_readable
    /\ pc = "done"
    /\ ret = "False"

(***************************************************************************)
(* Auxiliary definitions of the line-level properties.                     *)
(***************************************************************************)
\* a step is a turn of the while loop of the call under way
LoopTurn == xpc = "loop" /\ xpc' = "loop" /\ xi' = xi + 1

\* the line a turn of the loop is taken on
TurnLine == xcalls[xcall].lines[xi + 1]

\* how many records of type t the turn appends
Appended(t) == Len(xseqs'[t]) - Len(xseqs[t])

(***************************************************************************)
(* C13: a turn of the loop on a non-empty line appends exactly one         *)
(* LogEntry when the line matches the log_entry pattern, and otherwise     *)
(* nothing at all, never more than one; on a line that does not match      *)
(* nothing of any of the five types is appended and nothing is raised.     *)
(***************************************************************************)
C13_OneLogEntryOrNothing ==
    [][ (LoopTurn /\ ~ TurnLine.blank) =>
           /\ Appended("log_entries") \in {0, 1}
           /\ (Appended("log_entries") = 0 => xseqs' = xseqs)
           /\ (TurnLine.matches /\ xraised' = xraised => Appended("log_entries") = 1)
           /\ (~ TurnLine.matches => xseqs' = xseqs /\ xraised' = xraised)
      ]_vars

\* the loop has gone over a line that does not match and one that matches
C13_Witness ==
    /\ xpc = "loop"
    /\ xi = 2
    /\ xcalls[xcall].lines = << GarbageLine, CdrLine >>
    /\ xraised = {}
    /\ Len(xseqs["log_entries"]) = 1
    /\ Len(xseqs["call_records"]) = 1

RECURSIVE KeepLines(_, _, _)
\* the lines of a chunk whose positions, counted from k, are not in drop
KeepLines(chunk_lines, k, drop) ==
    IF chunk_lines = <<>> THEN <<>>
    ELSE (IF k \in drop THEN <<>> ELSE << Head(chunk_lines) >>)
            \o KeepLines(Tail(chunk_lines), k + 1, drop)

\* the positions of the lines of call c on which an exception was raised
RaisedLines(c) == { r[2] : r \in { q \in xraised : q[1] = c } }

(***************************************************************************)
(* C14: an exception raised at any point of the processing of one line     *)
(* does not leave the extraction of the chunk, the line is skipped (it     *)
(* contributes no record of any type) and every other line contributes     *)
(* what it contributes without the fault: the bundle a call returns is     *)
(* the extraction of its chunk without the lines that raised.              *)
(***************************************************************************)
C14_FaultyLineSkipped ==
    /\ (xraised # {} => xpc \in {"loop", "idle"})
    /\ \A c \in 1..Len(xbundles) :
          xbundles[c].seqs = ExtractSeqs(KeepLines(xcalls[c].lines, 1, RaisedLines(c)))

\* how many commas of the characters lie outside single-quoted spans: those
\* with an even number of quotes before them (an odd number when the
\* characters start inside a span)
TopLevelCommas(chars, quoted) ==
    Cardinality({ i \in 1..Len(chars) :
                    /\ chars[i] = ","
                    /\ (Cardinality({ j \in 1..(i - 1) : chars[j] = "'" }) % 2 = 1) = quoted })

\* the number of positional values of a value list, empty values included
PositionalValues(chars) == TopLevelCommas(chars, FALSE) + 1

(***************************************************************************)
(* C15: a CallRecord is produced if and only if the captured value list,   *)
(* split on the commas outside single-quoted spans, has at least 20        *)
(* positional values, empty values such as '' included; with fewer         *)
(* nothing is produced.                                                    *)
(***************************************************************************)
C15_RecordIffTwentyValues ==
    cpc = "done" =>
        (cdr_record = "record" <=> PositionalValues(values_str) >= 20)

\* the coarse types with a keyword, in the order of the tests
ClassOrder == << "SIP", "CDR", "REGISTRATION", "DATABASE", "SYSTEM", "CONFIG" >>

\* whether the message has the keyword of the coarse type
HasKeyword(message, type) ==
    CASE type = "SIP"          -> Contains(message, "SIP")
      [] type = "CDR"          -> ContainsLower(message, "cdr")
      [] type = "REGISTRATION" -> Contains(message, "REGISTER")
      [] type = "DATABASE"     -> Contains(message, "MySQL")
      [] type = "SYSTEM"       -> Contains(message, "threadpool")
      [] type = "CONFIG"       -> ContainsLower(message, "config")

\* every LogEntry appended so far by the call under way or returned in a bundle
AllLogEntries ==
    { xseqs["log_entries"][k] : k \in 1..Len(xseqs["log_entries"]) }
      \cup UNION { { xbundles[c].seqs["log_entries"][k] :
                       k \in 1..Len(xbundles[c].seqs["log_entries"]) } :
                   c \in 1..Len(xbundles) }

(***************************************************************************)
(* C16: classify_log_type gives every message exactly one coarse type,     *)
(* the first whose keyword the message has in the order SIP, call-detail,  *)
(* registration, database, system/thread, configuration, and general when  *)
(* it has none: a message with a SIP and a call-detail keyword is SIP.     *)
(***************************************************************************)
C16_FirstMatchingType ==
    \A e \in AllLogEntries :
        LET matching == { k \in 1..Len(ClassOrder) : HasKeyword(e.message, ClassOrder[k]) }
        IN  /\ e.log_type \in { ClassOrder[k] : k \in 1..Len(ClassOrder) } \cup {"GENERAL"}
            /\ (matching = {} <=> e.log_type = "GENERAL")
            /\ \A k \in matching :
                  (\A j \in matching : k <= j) => e.log_type = ClassOrder[k]
            /\ (HasKeyword(e.message, "SIP") /\ HasKeyword(e.message, "CDR")
                   => e.log_type = "SIP")

\* an entry with both a SIP and a call-detail keyword has been classified
\* and returned in a bundle
C16_Witness ==
    /\ \E e \in AllLogEntries :
          HasKeyword(e.message, "SIP") /\ HasKeyword(e.message, "CDR") /\ e.log_type = "SIP"
    /\ xbundles # <<>>
    /\ xraised = {}

\* the message mentions registration: 'REGISTER' in it or 'register' in its
\* lower-cased text
MentionsRegistration(message) ==
    Contains(message, "REGISTER") \/ ContainsLower(message, "register")

\* a turn of the loop on a line that yields a LogEntry, nothing being raised
EntryTurn == LoopTurn /\ ~ TurnLine.blank /\ TurnLine.matches /\ xraised' = xraised

(***************************************************************************)
(* C17: every LogEntry whose message mentions registration yields exactly  *)
(* one RegistrationEvent, whatever else the message contains (SIP transmit *)
(* or receive text included) and whatever its level; when its level is     *)
(* ERROR or WARNING it yields a SystemEvent as well.                       *)
(***************************************************************************)
C17_RegistrationAlways ==
    [][ (EntryTurn /\ MentionsRegistration(TurnLine.message)) =>
           /\ Appended("reg_events") = 1
           /\ (TurnLine.level \in {"ERROR", "WARNING"} => Appended("sys_events") = 1)
      ]_vars

(***************************************************************************)
(* What the if / elif / elif chain does: a LogEntry whose message mentions *)
(* registration yields exactly one RegistrationEvent, whatever its level,  *)
(* when the message contains neither 'Transmitting SIP' nor 'Received SIP' *)
(* and none when it does.  An ERROR or WARNING line yields a SystemEvent   *)
(* in both cases.                                                          *)
(***************************************************************************)
C17_RegistrationUnlessSip ==
    [][ (EntryTurn /\ MentionsRegistration(TurnLine.message)) =>
           /\ Appended("reg_events") =
                 (IF \/ Contains(TurnLine.message, "Transmitting SIP")
                     \/ Contains(TurnLine.message, "Received SIP")
                  THEN 0 ELSE 1)
           /\ (TurnLine.level \in {"ERROR", "WARNING"} => Appended("sys_events") = 1)
           /\ (TurnLine.level \notin {"ERROR", "WARNING"} => Appended("sys_events") = 0)
      ]_vars

\* the loop has gone over a WARNING line that mentions registration and over
\* an ERROR line that mentions it next to SIP transmit text
C17_Witness ==
    /\ xpc = "loop"
    /\ xi = 2
    /\ xcalls[xcall].lines = << RegLine, SipRegLine >>
    /\ xraised = {}
    /\ Len(xseqs["reg_events"]) = 1
    /\ Len(xseqs["sip_messages"]) = 1
    /\ Len(xseqs["sys_events"]) = 2

\* the <<line, stage>> at which exceptions were raised during call c
FaultsOf(c) == { << r[2], r[3] >> : r \in { q \in xraised : q[1] = c } }

(***************************************************************************)
(* C18: extraction is deterministic and stateless: two calls of            *)
(* _extract_all_data_from_chunk on the same start index and the same lines *)
(* return identical bundles, whatever chunks the worker processed before   *)
(* and in between; the bundle of a call is the extraction of its chunk     *)
(* alone.                                                                  *)
(***************************************************************************)
C18_SameChunkSameBundle ==
    /\ \A c, d \in 1..Len(xbundles) :
          (xcalls[c] = xcalls[d] /\ FaultsOf(c) = FaultsOf(d))
             => xbundles[c] = xbundles[d]
    /\ \A c \in 1..Len(xbundles) :
          FaultsOf(c) = {} =>
             xbundles[c] = extract_all_data_from_chunk(xcalls[c].start_idx, xcalls[c].lines)

\* the worker has returned from a call, from a call on another chunk and
\* from a second call on the first chunk
C18_Witness ==
    /\ Len(xbundles) = 3
    /\ xcalls[1] = xcalls[3]
    /\ xcalls[2] # xcalls[1]
    /\ xraised = {}
    /\ xbundles[1] = xbundles[3]
    /\ xbundles[2] # xbundles[1]
    /\ Len(xbundles[1].seqs["log_entries"]) = 2

\* the rows that the run has added to table t
AddedRows(t) == SubSeq(store[t], Len(ExistingRows[t]) + 1, Len(store[t]))

\* the store holds, besides what it held, exactly 1 LogEntry, 1 CallRecord,
\* 1 SystemEvent of level ERROR, no SipMessage and no RegistrationEvent
EndToEndPersisted ==
    /\ Len(AddedRows("log_entries")) = 1
    /\ Len(AddedRows("call_records")) = 1
    /\ Len(AddedRows("sys_events")) = 1
    /\ AddedRows("sys_events")[1].event_type = "ERROR"
    /\ AddedRows("sip_messages") = <<>>
    /\ AddedRows("reg_events") = <<>>

(***************************************************************************)
(* C19: for the two-line input made of an ERROR line whose message is a    *)
(* call-detail insert with 22 quoted values and of the line 'garbage', a   *)
(* run without faults persists exactly 1 LogEntry, 1 CallRecord, 1         *)
(* SystemEvent of level ERROR, 0 SipMessage and 0 RegistrationEvent, the   *)
(* second line being dropped without error, for any chunk size and worker  *)
(* count.                                                                  *)
(***************************************************************************)
C19_EndToEnd ==
    (/\ content = << CdrLine, GarbageLine >>
     /\ pc = "done"
     /\ chunk_faults = 0
     /\ insert_faults = 0)
        => (ret = "True" /\ EndToEndPersisted)

(***************************************************************************)
(* C20: the coordinator starts the writer before it dispatches any chunk   *)
(* to the pool: the writer is started when the chunks are built and the    *)
(* pool is created, and when the first bundle is put on the channel the    *)
(* writer is running and able to receive it.                               *)
(***************************************************************************)
C20_WriterStartedBeforeDispatch ==
    /\ [](/\ (pool # "none" => WriterStarted)
          /\ (chunks # <<>> => WriterStarted)
          /\ (put_log # <<>> => WriterStarted))
    /\ [][ /\ (pool = "none" /\ pool' # "none" => wpc \in {"get", "insert"})
           /\ (put_log = <<>> /\ put_log' # <<>> => wpc = "get" /\ wpc' = "get")
         ]_vars

\* the first bundle is on the channel, and the writer has been waiting for it
C20_Witness ==
    /\ Len(put_log) = 1
    /\ IsBundle(put_log[1])
    /\ result_queue = put_log
    /\ wpc = "get"
    /\ timeouts >= 1

\* the bundles the writer has got and is done with: all it has got but the
\* one whose inserts are under way
DoneBundles ==
    IF wpc = "insert"
    THEN SubSeq(BundlesOf(got_log), 1, Len(BundlesOf(got_log)) - 1)
    ELSE BundlesOf(got_log)

\* the rows of type t the writer has committed of the bundle under way: the
\* batches of the types before the one it is at
CommittedOfCurrent(t) ==
    IF wpc = "insert" /\ TypeIndex(t) < wnext THEN wresult.seqs[t] ELSE <<>>

\* while the writer is at the inserts of a bundle, it is at a type whose
\* sequence is not empty, and what is persisted of the bundle is the
\* batches of the types before that type
C21_PrefixPersisted ==
    /\ wpc = "insert" =>
          /\ wnext \in 1..Len(TypeOrder)
          /\ wresult = BundlesOf(got_log)[Len(BundlesOf(got_log))]
          /\ wresult.seqs[TypeOrder[wnext]] # <<>>
    /\ \A t \in Types :
          store[t] = ExistingRows[t] \o FlattenCommitted(DoneBundles, t)
                        \o CommittedOfCurrent(t)

\* a step that changes the store is the committed insert of one batch: the
\* whole non-empty sequence of one type appended to that type's table, the
\* other tables untouched; the next insert of the bundle is that of the
\* next type in the order whose sequence is not empty
C21_InsertStep ==
    /\ store' # store =>
          /\ wpc = "insert"
          /\ store' = [store EXCEPT ![TypeOrder[wnext]] = @ \o wresult.seqs[TypeOrder[wnext]]]
          /\ \A j \in (wnext + 1)..Len(TypeOrder) :
                (j < wnext' \/ wpc' # "insert") => wresult.seqs[TypeOrder[j]] = <<>>
          /\ wpc' = "insert" => (wnext' > wnext /\ wresult' = wresult)
    /\ (wpc = "get" /\ wpc' = "insert") =>
          \A j \in 1..(wnext' - 1) : wresult'.seqs[TypeOrder[j]] = <<>>

(***************************************************************************)
(* C21: for each bundle it gets, the writer issues exactly one grouped     *)
(* insert, committed on its own, for each of the five types whose sequence *)
(* is not empty, in the order log entries, call records, SIP messages,     *)
(* registration events, system events, and none for a type whose sequence  *)
(* is empty; in the middle of a bundle a prefix of that order is persisted.*)
(***************************************************************************)
C21_OneInsertPerTypeInOrder == [] C21_PrefixPersisted /\ [][C21_InsertStep]_vars

\* the writer is at the system events of a bundle, the log entries and call
\* records of the bundle are committed, its empty SIP and registration
\* sequences were passed over
C21_Witness ==
    /\ wpc = "insert"
    /\ wnext = 5
    /\ wresult.seqs["sip_messages"] = <<>>
    /\ wresult.seqs["reg_events"] = <<>>
    /\ wresult.seqs["call_records"] # <<>>
    /\ AddedRows("call_records") = wresult.seqs["call_records"]
    /\ AddedRows("log_entries") = wresult.seqs["log_entries"]
    /\ AddedRows("sys_events") = <<>>

\* each running total is the number of rows of its type committed so far,
\* and at the writer's end the number of records of the batches that
\* neither failed nor were skipped
C22_TotalsInv ==
    /\ \A t \in Types : totals[t] = Len(AddedRows(t))
    /\ wpc = "terminated" =>
          \A t \in Types :
              totals[t] = Len(FlattenCommitted(BundlesOf(got_log), t))

\* a total changes only in the step in which the batch of its type is
\* committed, and by the length of that batch
C22_CountStep ==
    totals' # totals =>
        /\ wpc = "insert"
        /\ insert_faults' = insert_faults
        /\ totals' = [totals EXCEPT ![TypeOrder[wnext]] =
                         @ + Len(wresult.seqs[TypeOrder[wnext]])]
        /\ store'[TypeOrder[wnext]] =
              store[TypeOrder[wnext]] \o wresult.seqs[TypeOrder[wnext]]

(***************************************************************************)
(* C22: at the writer's end each of the five running totals is the number  *)
(* of records of its type that the writer committed during the run: a      *)
(* total is increased by the length of a sequence only when that           *)
(* sequence's insert has committed, never for a batch whose insert failed  *)
(* or was not attempted.                                                   *)
(***************************************************************************)
C22_TotalsAreCommittedCounts == [] C22_TotalsInv /\ [][C22_CountStep]_vars

\* the writer has ended after a failed insert of call records: the log
\* entries are counted, the call records of that bundle are not
C22_Witness ==
    /\ wpc = "terminated"
    /\ \E b \in 1..Len(results) : << results[b].chunk_id, 2 >> \in failed
    /\ totals["log_entries"] = Len(Flatten(results, "log_entries"))
    /\ totals["log_entries"] >= 2
    /\ totals["call_records"] < Len(Flatten(results, "call_records"))
    /\ totals["sys_events"] < Len(Flatten(results, "sys_events"))

RECURSIVE ConcatChunks(_)
\* the lines of a list of chunks, one chunk after the other
ConcatChunks(cs) ==
    IF cs = <<>> THEN <<>> ELSE Head(cs).lines \o ConcatChunks(Tail(cs))

(***************************************************************************)
(* C23: for a positive chunk size the chunker cuts the lines in contiguous *)
(* chunks that partition them: put one after the other they are the lines, *)
(* every chunk but the last has chunk_size lines, the last has between 1   *)
(* and chunk_size lines, none is empty, and the tag of a chunk is the      *)
(* index of its first line in the file (0, chunk_size, 2*chunk_size, ...). *)
(***************************************************************************)
C23_ChunksPartitionLines ==
    (pool # "none" /\ chunk_size > 0) =>
        /\ ConcatChunks(chunks) = lines
        /\ lines = content
        /\ \A k \in 1..Len(chunks) :
              /\ chunks[k].lines # <<>>
              /\ Len(chunks[k].lines) <= chunk_size
              /\ (k < Len(chunks) => Len(chunks[k].lines) = chunk_size)
              /\ chunks[k].start_idx = (k - 1) * chunk_size
              /\ \A i \in 1..Len(chunks[k].lines) :
                    chunks[k].lines[i] = lines[chunks[k].start_idx + i]

\* three lines were cut in a chunk of two and a chunk of one
C23_Witness ==
    /\ pool # "none"
    /\ chunk_size = 2
    /\ Len(lines) = 3
    /\ Len(chunks) = 2
    /\ Len(chunks[1].lines) = 2
    /\ Len(chunks[2].lines) = 1
    /\ chunks[2].start_idx = 2

\* the categories with a keyword, in the order of the tests of
\* _extract_system_event
CategoryOrder == << "DATABASE", "SIP", "CONFIG", "SYSTEM" >>

\* whether the lower-cased message has a keyword of the category
HasCategoryKeyword(message, category) ==
    CASE category = "DATABASE" -> ContainsLower(message, "mysql") \/ ContainsLower(message, "database")
      [] category = "SIP"      -> ContainsLower(message, "sip")
      [] category = "CONFIG"   -> ContainsLower(message, "config")
      [] category = "SYSTEM"   -> ContainsLower(message, "thread")

\* the category of the first keyword the message has, GENERAL without any
FirstCategory(message) ==
    LET matching == { k \in 1..Len(CategoryOrder) :
                         HasCategoryKeyword(message, CategoryOrder[k]) }
    IN  IF matching = {} THEN "GENERAL"
        ELSE CategoryOrder[CHOOSE k \in matching : \A j \in matching : k <= j]

\* the turn appends one SystemEvent exactly when the level of the line is
\* WARNING or ERROR, and the event has the level as type and the category
\* of the first keyword
SystemEventOfTurn ==
    /\ Appended("sys_events") =
          (IF TurnLine.level \in {"WARNING", "ERROR"} THEN 1 ELSE 0)
    /\ Appended("sys_events") = 1 =>
          LET ev == xseqs'["sys_events"][Len(xseqs'["sys_events"])]
          IN  /\ ev.event_type = TurnLine.level
              /\ ev.category = FirstCategory(TurnLine.message)
              /\ (HasCategoryKeyword(TurnLine.message, "DATABASE")
                     /\ HasCategoryKeyword(TurnLine.message, "SIP")
                  => ev.category = "DATABASE")

(***************************************************************************)
(* C24: a LogEntry yields exactly one SystemEvent if and only if its level *)
(* is WARNING or ERROR, independently of the other extractions; the type   *)
(* of the event is the level and its category the first match in the order *)
(* database (mysql/database), sip, config, system (thread), else general:  *)
(* a message with a database keyword and sip is DATABASE.                  *)
(***************************************************************************)
C24_SystemEventIffWarningOrError ==
    [][ (LoopTurn /\ Appended("log_entries") = 1) => SystemEventOfTurn ]_vars

\* what holds: the same for the turns in which no extraction raises
C24_SystemEventWhenNothingRaised ==
    [][ EntryTurn => SystemEventOfTurn ]_vars

\* the event types of the six rungs of the ladder of
\* _extract_registration_event, in the order of the tests
RungType == << "ATTEMPT", "RESPONSE", "SUCCESS", "FAILURE", "SUCCESS", "FAILURE" >>

\* whether the test of rung k is true of the message
RungHolds(message, k) ==
    CASE k = 1 -> Contains(message, "REGISTER attempt") \/ ContainsLower(message, "register attempt")
      [] k = 2 -> Contains(message, "REGISTER response") \/ ContainsLower(message, "register response")
      [] k = 3 -> ContainsLower(message, "registration successful")
      [] k = 4 -> ContainsLower(message, "registration failed")
      [] k = 5 -> \E word \in {"success", "ok", "200"} : ContainsLower(message, word)
      [] k = 6 -> \E word \in {"fail", "error", "timeout", "unauthorized"} :
                     ContainsLower(message, word)

(***************************************************************************)
(* C25: every RegistrationEvent has exactly one event type, that of the    *)
(* first rung of the ladder that matches: 'register attempt' ATTEMPT, else *)
(* 'register response' RESPONSE, else 'registration successful' SUCCESS,   *)
(* else 'registration failed' FAILURE, else a generic success keyword      *)
(* SUCCESS, else a generic failure keyword FAILURE, else ATTEMPT; the      *)
(* explicit phrases win over the generic keywords and a generic success    *)
(* keyword wins over a generic failure keyword.                            *)
(***************************************************************************)
C25_FirstMatchingRung ==
    [][ (LoopTurn /\ Appended("reg_events") >= 1) =>
           LET ev == xseqs'["reg_events"][Len(xseqs'["reg_events"])]
               message == TurnLine.message
               matching == { k \in 1..Len(RungType) : RungHolds(message, k) }
           IN  /\ Appended("reg_events") = 1
               /\ ev.event_type \in {"ATTEMPT", "RESPONSE", "SUCCESS", "FAILURE"}
               /\ (matching = {} => ev.event_type = "ATTEMPT")
               /\ \A k \in matching :
                     (\A j \in matching : k <= j) => ev.event_type = RungType[k]
               /\ ((\E k \in 1..4 : RungHolds(message, k)) =>
                      ev.event_type = RungType[CHOOSE k \in 1..4 :
                                          /\ RungHolds(message, k)
                                          /\ \A j \in 1..(k - 1) : ~ RungHolds(message, j)])
               /\ ((RungHolds(message, 5) /\ RungHolds(message, 6)
                      /\ \A k \in 1..4 : ~ RungHolds(message, k))
                   => ev.event_type = "SUCCESS")
      ]_vars

\* a message with a generic failure keyword and a generic success keyword
\* and no explicit phrase has given a SUCCESS event
C25_Witness ==
    /\ xpc = "loop"
    /\ xi = 1
    /\ xcalls[xcall].lines[1].message = << "unauthorized REGISTER", "ok" >>
    /\ Len(xseqs["reg_events"]) = 1
    /\ xseqs["reg_events"][1].event_type = "SUCCESS"

\* every bundle and the sentinel were put, the writer has got them all and
\* ended, parse_log_file has returned True
RunCompleted ==
    /\ ret = "True"
    /\ wpc = "terminated"
    /\ Len(BundlesOf(put_log)) = Len(chunks)
    /\ SentinelCount = 1
    /\ got_log = put_log

(***************************************************************************)
(* C26: in a run in which no chunk raises, whatever the number of chunks   *)
(* (more than the capacity of the channel included), the coordinator       *)
(* eventually puts every bundle and the sentinel, the writer eventually    *)
(* gets the sentinel and ends, and parse_log_file eventually returns True: *)
(* the producer blocked on a full channel and the writer do not deadlock.  *)
(***************************************************************************)
C26_FaultFreeRunCompletes ==
    (log_file_readable /\ chunk_size > 0) => <>(chunk_faults > 0 \/ RunCompleted)

\* a run of three chunks over a channel of lesser capacity has completed
C26_Witness ==
    /\ RunCompleted
    /\ Len(chunks) = 3
    /\ Len(chunks) > maxsize
    /\ chunk_faults = 0
    /\ insert_faults = 0

\* whether sequence p is a prefix of sequence q
IsPrefixOf(p, q) == Len(p) <= Len(q) /\ p = SubSeq(q, 1, Len(p))

\* the k-th bundle is that of the k-th chunk, and the chunks are in
\* ascending order of start index
InChunkOrder(log) ==
    /\ Len(BundlesOf(log)) <= Len(chunks)
    /\ \A k \in 1..Len(BundlesOf(log)) :
          BundlesOf(log)[k].chunk_id = chunks[k].start_idx
    /\ \A j, k \in 1..Len(chunks) :
          j < k => chunks[j].start_idx < chunks[k].start_idx

\* extraction is over before anything is put or persisted; what is put and
\* what the writer gets follow the order of the chunks; with no failed insert
\* the rows added to a table are the first ones of the extraction of the
\* whole file
C27_OrderInv ==
    /\ (put_log # <<>> \/ got_log # <<>> \/ store # ExistingRows) =>
          /\ pool = "terminated"
          /\ \A w \in 1..Len(worker) : worker[w] = 0
          /\ \A k \in 1..Len(chunks) :
                results[k] = extract_all_data_from_chunk(chunks[k].start_idx,
                                                         chunks[k].lines)
    /\ InChunkOrder(put_log)
    /\ IsPrefixOf(got_log, put_log)
    /\ (failed = {} /\ chunk_size > 0 /\ pool # "none") =>
          \A t \in Types :
             IsPrefixOf(AddedRows(t), extract_all_data_from_chunk(0, lines).seqs[t])

\* a put is a step of the coordinator past starmap and leaves the pool as it
\* is; a step of the pool puts nothing
C27_PutStep ==
    /\ put_log' # put_log =>
          /\ pc \in {"forward", "sentinel"}
          /\ << pc, fwd >> # << pc', fwd' >>
          /\ UNCHANGED poolVars
    /\ ~ UNCHANGED poolVars => UNCHANGED << result_queue, put_log >>

IsSuffixOf(p, q) ==
    Len(p) <= Len(q) /\ p = SubSeq(q, Len(q) - Len(p) + 1, Len(q))

\* an insert of a bundle has raised
BundleFailed(chunk_id) == \E k \in 1..Len(TypeOrder) : << chunk_id, k >> \in failed

\* the step in which an insert raises: the batches of the earlier types of
\* the bundle are in their tables and stay there, nothing is added or
\* counted, and the writer leaves the bundle
C28_FailStep ==
    failed' # failed =>
        /\ wpc = "insert"
        /\ failed' = failed \cup { << wresult.chunk_id, wnext >> }
        /\ \A j \in 1..(wnext - 1) :
              /\ IsSuffixOf(wresult.seqs[TypeOrder[j]], store'[TypeOrder[j]])
              /\ << wresult.chunk_id, j >> \notin failed'
        /\ UNCHANGED << store, totals >>
        /\ wpc' = "get"
        /\ wresult' = None

\* no insert is attempted, committed or counted for a bundle one of whose
\* inserts has raised; rows once committed stay
C28_LaterStep ==
    /\ (wpc = "insert" /\ (store' # store \/ totals' # totals \/ failed' # failed)) =>
          ~ BundleFailed(wresult.chunk_id)
    /\ \A t \in Types : IsPrefixOf(store[t], store'[t])

\* the writer is never at an insert of a bundle one of whose inserts raised;
\* of such a bundle only the type that raised is in `failed`
C28_AbandonedInv ==
    /\ wpc = "insert" => ~ BundleFailed(wresult.chunk_id)
    /\ \A f, g \in failed : f[1] = g[1] => f = g

(***************************************************************************)
(* C28: when the insert of one type of a bundle raises, the types earlier  *)
(* in the order keep their committed rows, and the writer attempts no      *)
(* insert for the types later in the order of the same bundle: their       *)
(* records are neither persisted nor counted, although no insert of theirs *)
(* failed.                                                                 *)
(***************************************************************************)
C28_FailedInsertAbandonsBundle ==
    [] C28_AbandonedInv /\ [][C28_FailStep /\ C28_LaterStep]_vars

\* the call-record insert of the only bundle raised: its log entries are
\* persisted, its system events are neither persisted nor counted
C28_Witness ==
    /\ wpc = "terminated"
    /\ Len(chunks) = 1
    /\ failed = { << 0, 2 >> }
    /\ got_log[1].seqs["sys_events"] # <<>>
    /\ AddedRows("log_entries") = got_log[1].seqs["log_entries"]
    /\ AddedRows("log_entries") # <<>>
    /\ AddedRows("sys_events") = <<>>
    /\ totals["sys_events"] = 0

\* the inequalities between the lengths of the five lists
ListsBounded(seqs) ==
    /\ Len(seqs["call_records"]) <= Len(seqs["log_entries"])
    /\ Len(seqs["sip_messages"]) + Len(seqs["reg_events"]) <= Len(seqs["log_entries"])
    /\ Len(seqs["sys_events"]) <= Len(seqs["log_entries"])

\* what one turn of the loop appends, whether or not it raises
C29_TurnStep ==
    LoopTurn =>
        /\ \A t \in Types : Appended(t) \in {0, 1}
        /\ Appended("sip_messages") + Appended("reg_events") <= 1
        /\ (\/ Contains(TurnLine.message, "Transmitting SIP")
            \/ Contains(TurnLine.message, "Received SIP")) => Appended("reg_events") = 0
        /\ (\E t \in Types : Appended(t) = 1) => Appended("log_entries") = 1

\* the lists under construction and the lists of every bundle returned
C29_ListsInv ==
    /\ ListsBounded(xseqs)
    /\ \A k \in 1..Len(xbundles) : ListsBounded(xbundles[k].seqs)

(***************************************************************************)
(* C29: a line contributes at most one LogEntry, one CallRecord, one       *)
(* SystemEvent and one record among SipMessage and RegistrationEvent       *)
(* (never both; a line with 'Transmitting SIP' or 'Received SIP' yields no *)
(* RegistrationEvent), and no derived record without a LogEntry; hence in  *)
(* every bundle |call_records| <= |log_entries|, |sip_messages| +          *)
(* |reg_events| <= |log_entries| and |sys_events| <= |log_entries|.        *)
(***************************************************************************)
C29_AtMostOnePerLine == [] C29_ListsInv /\ [][C29_TurnStep]_vars

\* the bundle of a one-line chunk whose ERROR line has 'Transmitting SIP'
\* and 'REGISTER': one LogEntry, one SipMessage, one SystemEvent and no
\* RegistrationEvent
C29_Witness ==
    /\ xpc = "idle"
    /\ xcall >= 1
    /\ Len(xbundles) = xcall
    /\ Len(xcalls[xcall].lines) = 1
    /\ Contains(xcalls[xcall].lines[1].message, "Transmitting SIP")
    /\ Contains(xcalls[xcall].lines[1].message, "REGISTER")
    /\ Len(xbundles[xcall].seqs["log_entries"]) = 1
    /\ Len(xbundles[xcall].seqs["sip_messages"]) = 1
    /\ Len(xbundles[xcall].seqs["sys_events"]) = 1
    /\ xbundles[xcall].seqs["reg_events"] = <<>>

(***************************************************************************)
(* The single-threaded analyzer: YeastarLogAnalyzer.parse_log_file of      *)
(* core/analyzer.py.                                                       *)
(***************************************************************************)
RECURSIVE analyzer_stops_on_unmatched(_)
\* faulty variant of analyzer_parse_log_file: a line that matches no pattern
\* ends the loop
analyzer_stops_on_unmatched(file_lines) ==
    IF file_lines = <<>> THEN [log_entries |-> <<>>, call_records |-> <<>>]
    ELSE LET line == Head(file_lines) IN
         IF line.blank THEN analyzer_stops_on_unmatched(Tail(file_lines))
         ELSE LET entry == parse_log_entry(line) IN
              IF entry = None THEN [log_entries |-> <<>>, call_records |-> <<>>]
              ELSE LET rest == analyzer_stops_on_unmatched(Tail(file_lines))
                       call_record == IF Contains(entry.message, "INSERT INTO cdr")
                                      THEN parse_cdr_entry(entry.message) ELSE None
                   IN  [log_entries  |-> << entry >> \o rest.log_entries,
                        call_records |-> (IF call_record # None
                                          THEN << call_record >> ELSE <<>>)
                                         \o rest.call_records]

RECURSIVE analyzer_parse_log_file(_)
\* lines 43-63: the rows that the while loop stores, one store_log_entry per
\* entry and one store_call_record per call record, in the order of the lines
analyzer_parse_log_file(file_lines) ==
    IF file_lines = <<>> THEN [log_entries |-> <<>>, call_records |-> <<>>]
    ELSE LET line == Head(file_lines)
             rest == analyzer_parse_log_file(Tail(file_lines))
         IN  IF line.blank THEN rest
             ELSE LET entry == parse_log_entry(line) IN
                  IF entry = None THEN rest
                  ELSE LET call_record == IF Contains(entry.message, "INSERT INTO cdr")
                                          THEN parse_cdr_entry(entry.message) ELSE None
                       IN  [log_entries  |-> << entry >> \o rest.log_entries,
                            call_records |-> (IF call_record # None
                                              THEN << call_record >> ELSE <<>>)
                                             \o rest.call_records]

(***************************************************************************)
(* C30: for the same input file, a run of the multiprocessing pipeline in  *)
(* which nothing fails appends to the log-entry table and to the           *)
(* call-record table exactly the records that the single-threaded analyzer *)
(* (YeastarLogAnalyzer.parse_log_file) appends for that file, whatever the *)
(* positive chunk size and the worker count.                               *)
(***************************************************************************)
C30_SameRowsAsSingleThreaded ==
    (ret = "True" /\ chunk_size > 0 /\ insert_faults = 0) =>
        /\ AddedRows("log_entries") = analyzer_parse_log_file(content).log_entries
        /\ AddedRows("call_records") = analyzer_parse_log_file(content).call_records

\* a run over three lines in two chunks on two workers, with a line that
\* yields nothing before a line that yields a LogEntry and a CallRecord
C30_Witness ==
    /\ ret = "True"
    /\ insert_faults = 0
    /\ chunk_size = 2
    /\ max_workers = 2
    /\ Len(content) = 3
    /\ content[1] = GarbageLine
    /\ content[3] = CdrLine
    /\ Len(AddedRows("log_entries")) = 2
    /\ Len(AddedRows("call_records")) >= 1
====
